---- MODULE Spec2Model ----
(***************************************************************************)
(* Slug / redirect bookkeeping of the StartupSaga CMS backend              *)
(* (cms/api_views.py, cms/models.py).                                      *)
(*                                                                         *)
(* Text values are sequences of one-character strings, so that the string  *)
(* operations of the code (lower, replace, strip, slugify, f-strings) are  *)
(* computed character by character.  A missing JSON key / Python None is   *)
(* the value None below.                                                   *)
(***************************************************************************)
EXTENDS Integers, Sequences, FiniteSets, TLC

\* ------------------------------------------------------------------------
\* Bounds of the model
\* ------------------------------------------------------------------------
\* rows ever created (ids handed out) over all tables
MaxId == 2
\* records in the redirect ledger
MaxLedger == 2
\* startup submissions received
MaxSubmissions == 1

\* ------------------------------------------------------------------------
\* Python values and string operations
\* ------------------------------------------------------------------------
None == <<"None">>

\* Python truthiness of an optional string: None and "" are falsy
Truthy(v) == v # None /\ v # <<>>

\* str(v): str(None) is the text "None"
Str(v) == IF v = None THEN <<"N", "o", "n", "e">> ELSE v

IsSpace(c) == c = " "
IsUpper(c) == c \in {"Z", "Y", "N"}
IsLowerAlpha(c) == c \in {"z", "y", "x", "n", "o", "e", "s", "t", "r", "i", "a", "u", "p"}
IsDigit(c) == c \in {"0", "1", "2", "3", "4", "5", "6", "7", "8", "9"}
\* \w of a Python regular expression
IsWord(c) == IsUpper(c) \/ IsLowerAlpha(c) \/ IsDigit(c) \/ c = "_"

LowerChar(c) ==
    CASE c = "Z" -> "z"
      [] c = "Y" -> "y"
      [] c = "N" -> "n"
      [] OTHER -> c

\* str.lower()
Lower(s) == [i \in 1..Len(s) |-> LowerChar(s[i])]

\* str.replace(' ', '-')
ReplaceSpace(s) == [i \in 1..Len(s) |-> IF s[i] = " " THEN "-" ELSE s[i]]

RECURSIVE LStrip(_, _)
LStrip(s, cs) ==
    IF s # <<>> /\ Head(s) \in cs THEN LStrip(Tail(s), cs) ELSE s

RECURSIVE RStrip(_, _)
RStrip(s, cs) ==
    IF s # <<>> /\ s[Len(s)] \in cs THEN RStrip(SubSeq(s, 1, Len(s) - 1), cs) ELSE s

\* str.strip(chars); str.strip() strips whitespace
StripChars(s, cs) == RStrip(LStrip(s, cs), cs)
Strip(s) == StripChars(s, {" "})

\* re.sub(r'[^\w\s-]', '', s)
RECURSIVE DropNonSlug(_)
DropNonSlug(s) ==
    IF s = <<>> THEN <<>>
    ELSE IF IsWord(Head(s)) \/ IsSpace(Head(s)) \/ Head(s) = "-"
         THEN <<Head(s)>> \o DropNonSlug(Tail(s))
         ELSE DropNonSlug(Tail(s))

\* re.sub(r'[-\s]+', '-', s)
RECURSIVE CollapseHyphens(_)
CollapseHyphens(s) ==
    IF s = <<>> THEN <<>>
    ELSE IF Head(s) = "-" \/ IsSpace(Head(s))
         THEN <<"-">> \o CollapseHyphens(LStrip(Tail(s), {"-", " "}))
         ELSE <<Head(s)>> \o CollapseHyphens(Tail(s))

\* django.utils.text.slugify (ASCII input)
slugify(value) ==
    StripChars(CollapseHyphens(DropNonSlug(Lower(Str(value)))), {"-", "_"})

DigitChar(d) ==
    CASE d = 0 -> "0" [] d = 1 -> "1" [] d = 2 -> "2" [] d = 3 -> "3"
      [] d = 4 -> "4" [] d = 5 -> "5" [] d = 6 -> "6" [] d = 7 -> "7"
      [] d = 8 -> "8" [] d = 9 -> "9"

\* str(counter) in an f-string
RECURSIVE Decimal(_)
Decimal(n) ==
    IF n < 10 THEN <<DigitChar(n)>> ELSE Decimal(n \div 10) \o <<DigitChar(n % 10)>>

\* mutant: the suffix joined with an underscore
SuffixedUnderscore(base_slug, counter) == base_slug \o <<"_">> \o Decimal(counter)

\* f'{base_slug}-{counter}'
Suffixed(base_slug, counter) == base_slug \o <<"-">> \o Decimal(counter)


\* ------------------------------------------------------------------------
\* Request inputs
\* ------------------------------------------------------------------------
\* display names / titles in create requests: "Z", "!" (slugifies to the
\* empty string), " " (empty after trimming), or none
NameInputs == {<<"Z">>, <<"!">>, <<" ">>, None}
\* titles in story create requests: "Z", " " (slugifies to the empty string),
\* or none
TitleInputs == {<<"Z">>, <<" ">>, None}
\* display names / titles in update requests: "Y", "Z", or none
RenameInputs == {<<"Y">>, <<"Z">>, None}
\* explicit slugs: "z", "y", or none
SlugInputs == {<<"z">>, <<"y">>, None}
\* names of categories and cities given with a story or a submission: "Z",
\* "Z!" (another name with the same slug), or none
TagInputs == {<<"Z">>, <<"Z", "!">>, None}
\* the smaller sets used when the views of all entity kinds run together
FewNames == {<<"Z">>, None}
FewRenames == {<<"Y">>, None}
\* "Z": an explicit slug in mixed case
FewSlugs == {<<"Z">>, None}
FewTags == {<<"Z", "!">>, None}
\* a slug in a URL that no row holds
UnknownSlug == <<"n", "o">>

\* ------------------------------------------------------------------------
\* State: the tables of cms/models.py that carry a slug, the redirect
\* ledger, the submissions, and the last request with its response
\* ------------------------------------------------------------------------
VARIABLES Startup, Story, City, Category, Page, Redirect, StartupSubmission,
          nextId, last,
          \* requests in flight, one per client process, each at a step of
          \* its view (used when the steps of two requests interleave)
          proc,
          \* the newsletter tables, the mail sent, and the report of the
          \* last run of the send_newsletter command
          NewsletterSubscription, NewsletterTemplate, outbox, report

vars == <<Startup, Story, City, Category, Page, Redirect, StartupSubmission,
          nextId, last, proc, NewsletterSubscription, NewsletterTemplate, outbox,
          report>>

\* a row of a slug-bearing table
Row(id, name, slug) == [id |-> id, name |-> name, slug |-> slug]
\* the display field of a Story or Page row is its title


\* the response of a view together with the request it answers:
\*   op      the view
\*   status  the HTTP status of the JsonResponse
\*   id      the id of the row the request loaded or created (0: none)
\*   req     the slug (or path) the request carried
\*   old     the slug of the row before the request
\*   out     the slug (or redirect target) in the response body
Response(op, status, id, req, old, out) ==
    [op |-> op, status |-> status, id |-> id, req |-> req, old |-> old, out |-> out]

\* ------------------------------------------------------------------------
\* Storage layer (Django ORM over a relational store)
\* ------------------------------------------------------------------------
\* Model.objects.filter(slug=slug).exists()
SlugExists(table, slug) == \E r \in table : r.slug = slug

\* Model.objects.filter(slug=slug).exclude(id=id).exists()
SlugExistsExcluding(table, slug, id) == \E r \in table : r.id # id /\ r.slug = slug

\* mutant: the slug column without unique=True
UniqueViolationOff(table, id, slug) == FALSE

\* SlugField(unique=True): the INSERT or UPDATE of a row is rejected with
\* IntegrityError when another row holds the slug
UniqueViolation(table, id, slug) == SlugExistsExcluding(table, slug, id)

\* CharField() without null=True: NOT NULL
NullViolation(name) == name = None

\* mutant: save() as a blind INSERT that leaves the old row in place
PersistInsert(table, row) == table \cup {row}

\* super().save() of a row: INSERT when the id is new, UPDATE otherwise
Persist(table, row) == {r \in table : r.id # row.id} \cup {row}

\* Model.objects.get(slug=slug): the set holding the row, empty on DoesNotExist
GetBySlug(table, slug) == {r \in table : r.slug = slug}

\* Model.objects.get(id=id)
GetById(table, id) == {r \in table : r.id = id}

\* mutant: the delete also removes the redirects that lead to the deleted row
CascadeDeleteRedirects(ledger, row) ==
    {r \in ledger : \A i \in 1..Len(r.to_path) :
        SubSeq(r.to_path, i, Len(r.to_path)) # <<"/">> \o row.slug \o <<"/">>}

\* row.delete(): the ledger after the delete.  Redirect holds path strings
\* and no ForeignKey to any entity, so the delete cascades to no record
CascadeDelete(ledger, row) == ledger

\* Model.objects.filter(name__iexact=name).first() (rows in id order)
RowsByNameIexact(table, name) == {r \in table : Lower(r.name) = Lower(name)}
First(rows) == CHOOSE r \in rows : \A q \in rows : r.id <= q.id

\* ------------------------------------------------------------------------
\* cms/models.py: save() overrides
\* ------------------------------------------------------------------------
\* Startup.save and Story.save
SaveLower(name, slug) ==
    IF ~Truthy(slug) THEN ReplaceSpace(Lower(slugify(name)))
    ELSE ReplaceSpace(Lower(slug))

\* Category.save and City.save
SaveKeep(name, slug) ==
    IF ~Truthy(slug) THEN ReplaceSpace(Lower(slugify(name)))
    ELSE slug

\* ------------------------------------------------------------------------
\* The counter-suffix search of the create and update views
\* ------------------------------------------------------------------------
\* while Model.objects.filter(slug=unique_slug)[.exclude(id=id)].exists():
\*     unique_slug = f'{base_slug}-{counter}'; counter += 1
RECURSIVE SuffixSearch(_, _, _, _)
SuffixSearch(taken, base_slug, unique_slug, counter) ==
    IF unique_slug \in taken
    THEN SuffixSearch(taken, base_slug, Suffixed(base_slug, counter), counter + 1)
    ELSE unique_slug

Slugs(table) == {r.slug : r \in table}
\* mutant: the rows of the table with none left out
SlugsCountingSelf(table, id) == {r.slug : r \in table}

SlugsExcluding(table, id) == {r.slug : r \in {q \in table : q.id # id}}

\* mutant: the counter started at 2
UniqueSlugFromTwo(table, base_slug) == SuffixSearch(Slugs(table), base_slug, base_slug, 2)

UniqueSlug(table, base_slug) == SuffixSearch(Slugs(table), base_slug, base_slug, 1)
\* mutant: the search without .exclude(id=...)
UniqueSlugCountingSelf(table, base_slug, id) ==
    SuffixSearch(Slugs(table), base_slug, base_slug, 1)

UniqueSlugExcluding(table, base_slug, id) ==
    SuffixSearch(SlugsExcluding(table, id), base_slug, base_slug, 1)

\* ------------------------------------------------------------------------
\* Redirect ledger
\* ------------------------------------------------------------------------
RedirectRow(from_path, to_path, is_permanent) ==
    [from_path |-> from_path, to_path |-> to_path, is_permanent |-> is_permanent]

\* mutant: the path without its trailing slash
PathOfNoTrailingSlash(path_prefix, slug) ==
    <<"/">> \o StripChars(path_prefix, {"/"}) \o <<"/">> \o slug

\* f"/{path_prefix.strip('/')}/{slug}/"
PathOf(path_prefix, slug) ==
    <<"/">> \o StripChars(path_prefix, {"/"}) \o <<"/">> \o slug \o <<"/">>

\* mutant: Redirect.objects.create(...) without the lookup
CreateAlways(ledger, from_path, to_path) ==
    ledger \cup {RedirectRow(from_path, to_path, TRUE)}

\* mutant: Redirect.objects.update_or_create(...)
UpdateOrCreate(ledger, from_path, to_path) ==
    {r \in ledger : r.from_path # from_path} \cup {RedirectRow(from_path, to_path, TRUE)}

\* Redirect.objects.get_or_create(from_path=..., defaults={...})
GetOrCreate(ledger, from_path, to_path) ==
    IF \E r \in ledger : r.from_path = from_path
    THEN ledger
    ELSE ledger \cup {RedirectRow(from_path, to_path, TRUE)}

\* mutant: the redirect written from the new path to the old one
CreateRedirectSwapped(ledger, old_slug, new_slug, path_prefix) ==
    IF ~Truthy(old_slug) \/ ~Truthy(new_slug) \/ old_slug = new_slug
    THEN ledger
    ELSE GetOrCreate(ledger, PathOf(path_prefix, new_slug), PathOf(path_prefix, old_slug))

\* mutant: the helper without its first guard
CreateRedirectUnguarded(ledger, old_slug, new_slug, path_prefix) ==
    LET from_path == PathOf(path_prefix, Str(old_slug))
        to_path == PathOf(path_prefix, Str(new_slug))
    IN  IF from_path # to_path
        THEN GetOrCreate(ledger, from_path, to_path)
        ELSE ledger

\* mutant: the helper without its equality guards
CreateRedirectOnEverySave(ledger, old_slug, new_slug, path_prefix) ==
    IF ~Truthy(old_slug) \/ ~Truthy(new_slug)
    THEN ledger
    ELSE GetOrCreate(ledger, PathOf(path_prefix, old_slug), PathOf(path_prefix, new_slug))

\* _create_redirect_if_slug_changed: the ledger after the call
CreateRedirectIfSlugChanged(ledger, old_slug, new_slug, path_prefix) ==
    IF ~Truthy(old_slug) \/ ~Truthy(new_slug) \/ old_slug = new_slug
    THEN ledger
    ELSE LET from_path == PathOf(path_prefix, old_slug)
             to_path == PathOf(path_prefix, new_slug)
         IN  IF from_path # to_path
             THEN GetOrCreate(ledger, from_path, to_path)
             ELSE ledger

StartupsPrefix == <<"s", "t", "a", "r", "t", "u", "p", "s">>
StoriesPrefix == <<"s", "t", "o", "r", "i", "e", "s">>


\* does _create_redirect_if_slug_changed reach the ledger (get_or_create)?
ReachesLedger(old_slug, new_slug, path_prefix) ==
    /\ Truthy(old_slug) /\ Truthy(new_slug) /\ old_slug # new_slug
    /\ PathOf(path_prefix, old_slug) # PathOf(path_prefix, new_slug)

\* ------------------------------------------------------------------------
\* Client processes and the command report
\* ------------------------------------------------------------------------
\* the client processes whose requests may be in flight together
Procs == {1, 2}

\* a request in flight:
\*   op      the view
\*   pc      the step the view is about to take ("idle": no request,
\*           "done": the response was sent)
\*   id      the id of the row the request loaded (0: none)
\*   name    the display name in the request
\*   req     the slug the request carried (for a helper call: the prefix)
\*   old     the slug of the row when it was loaded
\*   new     the slug the view computed
\*   hit     the redirect lookup of get_or_create found a record
\*   status  the HTTP status of the response (0: none yet)
InFlight(op, pc, id, name, req, old, new, hit, status) ==
    [op |-> op, pc |-> pc, id |-> id, name |-> name, req |-> req, old |-> old,
     new |-> new, hit |-> hit, status |-> status]

Idle == InFlight("none", "idle", 0, None, None, None, None, FALSE, 0)

\* the stdout report of a run of send_newsletter:
\*   run            the number of the run (0: the command never ran)
\*   dry_run        --dry-run was given
\*   skipped        the command returned before the sending loop
\*   success_count, fail_count   the counters of the loop
Report(run, dry_run, skipped, success_count, fail_count) ==
    [run |-> run, dry_run |-> dry_run, skipped |-> skipped,
     success_count |-> success_count, fail_count |-> fail_count]

NoReport == Report(0, FALSE, TRUE, 0, 0)

\* ------------------------------------------------------------------------
\* Initial state: empty tables
\* ------------------------------------------------------------------------
Init ==
    /\ Startup = {}
    /\ Story = {}
    /\ City = {}
    /\ Category = {}
    /\ Page = {}
    /\ Redirect = {}
    /\ StartupSubmission = {}
    /\ nextId = 1
    /\ last = Response("none", 0, 0, None, None, None)
    /\ proc = [p \in Procs |-> Idle]
    /\ NewsletterSubscription = {}
    /\ NewsletterTemplate = {}
    /\ outbox = {}
    /\ report = NoReport

\* ------------------------------------------------------------------------
\* Startup views
\* ------------------------------------------------------------------------
\* POST startups/create/  {name, slug}
startup_create(name_in, slug_in) ==
    LET name == Strip(IF Truthy(name_in) THEN name_in ELSE <<>>)
        base_slug == IF Truthy(slug_in) THEN slug_in ELSE slugify(name)
        unique_slug == UniqueSlug(Startup, base_slug)
        stored == SaveLower(name, unique_slug)
    IN  /\ nextId <= MaxId
        /\ UNCHANGED <<proc, NewsletterSubscription, NewsletterTemplate, outbox, report,
                       Story, City, Category, Page, Redirect, StartupSubmission>>
        /\ IF name = <<>>
           THEN /\ last' = Response("startup_create", 400, 0, slug_in, None, None)
                /\ UNCHANGED <<Startup, nextId>>
           ELSE IF UniqueViolation(Startup, nextId, stored)
           THEN \* IntegrityError inside transaction.atomic(): rolled back
                /\ last' = Response("startup_create", 400, 0, slug_in, None, None)
                /\ UNCHANGED <<Startup, nextId>>
           ELSE /\ Startup' = Persist(Startup, Row(nextId, name, stored))
                /\ nextId' = nextId + 1
                /\ last' = Response("startup_create", 201, nextId, slug_in, None, stored)

\* PUT startups/<slug>/update/  {name, slug}; fault: the store fails while
\* the redirect is written
startup_update(slug, name_in, slug_in, fault) ==
    LET found == GetBySlug(Startup, slug)
    IN  /\ UNCHANGED <<proc, NewsletterSubscription, NewsletterTemplate, outbox, report,
                       Story, City, Category, Page, StartupSubmission, nextId>>
        /\ IF found = {}
           THEN /\ ~fault
                /\ last' = Response("startup_update", 404, 0, slug_in, None, None)
                /\ UNCHANGED <<Startup, Redirect>>
           ELSE
            LET startup == CHOOSE r \in found : TRUE
                old_startup_slug == startup.slug
                name == IF name_in # None THEN name_in ELSE startup.name
                new_slug ==
                    IF Truthy(slug_in) /\ slug_in # startup.slug
                    THEN UniqueSlugExcluding(Startup,
                             ReplaceSpace(Lower(slugify(slug_in))), startup.id)
                    ELSE startup.slug
                stored == SaveLower(name, new_slug)
            IN  /\ fault => ReachesLedger(old_startup_slug, stored, StartupsPrefix)
                /\ IF UniqueViolation(Startup, startup.id, stored) \/ fault
                   THEN \* exception inside transaction.atomic(): rolled back
                        /\ last' = Response("startup_update", 400, startup.id,
                                            slug_in, old_startup_slug, None)
                        /\ UNCHANGED <<Startup, Redirect>>
                   ELSE /\ Startup' = Persist(Startup, Row(startup.id, name, stored))
                        /\ Redirect' = CreateRedirectIfSlugChanged(Redirect,
                                           old_startup_slug, stored, StartupsPrefix)
                        /\ Cardinality(Redirect') <= MaxLedger
                        /\ last' = Response("startup_update", 200, startup.id,
                                            slug_in, old_startup_slug, stored)

\* DELETE startups/<slug>/delete/
startup_delete(slug) ==
    LET found == GetBySlug(Startup, slug)
    IN  /\ UNCHANGED <<proc, NewsletterSubscription, NewsletterTemplate, outbox, report,
                       Story, City, Category, Page, StartupSubmission, nextId>>
        /\ IF found = {}
           THEN /\ last' = Response("startup_delete", 404, 0, None, None, None)
                /\ UNCHANGED <<Startup, Redirect>>
           ELSE LET startup == CHOOSE r \in found : TRUE
                IN  /\ Startup' = Startup \ {startup}
                    /\ Redirect' = CascadeDelete(Redirect, startup)
                    /\ last' = Response("startup_delete", 200, startup.id,
                                        None, startup.slug, None)

\* ------------------------------------------------------------------------
\* Redirect engine
\* ------------------------------------------------------------------------
\* the lookup key redirect_resolve builds from the query parameter
ResolveKey(path_in) ==
    LET stripped == RStrip(Strip(IF Truthy(path_in) THEN path_in ELSE <<>>), {"/"})
        path == IF stripped = <<>> THEN <<"/">> ELSE stripped
    IN  IF Head(path) # "/" THEN <<"/">> \o path ELSE path

\* GET redirect-resolve/?path=...
redirect_resolve(path_in) ==
    LET path == ResolveKey(path_in)
        found == {r \in Redirect : r.from_path = path}
    IN  /\ UNCHANGED <<proc, NewsletterSubscription, NewsletterTemplate, outbox, report,
                       Startup, Story, City, Category, Page, Redirect,
                       StartupSubmission, nextId>>
        /\ IF found = {}
           THEN last' = Response("redirect_resolve", 404, 0, path_in, None, None)
           ELSE LET r == CHOOSE q \in found : TRUE
                IN  last' = Response("redirect_resolve", 200, 0, path_in, None, r.to_path)


\* a direct call _create_redirect_if_slug_changed(old_slug, new_slug,
\* path_prefix); the call returns nothing and raises nothing (status 0)
create_redirect_if_slug_changed(old_slug, new_slug, path_prefix) ==
    /\ UNCHANGED <<proc, NewsletterSubscription, NewsletterTemplate, outbox, report,
                       Startup, Story, City, Category, Page, StartupSubmission, nextId>>
    /\ Redirect' = CreateRedirectIfSlugChanged(Redirect, old_slug, new_slug, path_prefix)
    /\ Cardinality(Redirect') <= MaxLedger
    /\ last' = Response("create_redirect_if_slug_changed", 0, 0,
                        path_prefix, old_slug, new_slug)

\* ------------------------------------------------------------------------
\* Story views
\* ------------------------------------------------------------------------
\* "Handle Category Lookup/Create" and "Handle City Lookup/Create":
\*   obj = Model.objects.filter(name__iexact=name).first()
\*   if not obj: obj = Model.objects.create(name=name, slug=slugify(name))
\* ok is FALSE when the INSERT raises IntegrityError
LookupOrCreate(table, name, id) ==
    IF ~Truthy(name) \/ RowsByNameIexact(table, name) # {}
    THEN [ok |-> TRUE, table |-> table, next |-> id]
    ELSE LET slug == SaveKeep(name, slugify(name))
         IN  IF UniqueViolation(table, id, slug)
             THEN [ok |-> FALSE, table |-> table, next |-> id]
             ELSE [ok |-> TRUE, table |-> Persist(table, Row(id, name, slug)),
                   next |-> id + 1]

\* POST stories/create/  {title, slug, category, city}
story_create(title_in, slug_in, category_in, city_in) ==
    LET cat == LookupOrCreate(Category, category_in, nextId)
        cty == IF cat.ok THEN LookupOrCreate(City, city_in, cat.next)
               ELSE [ok |-> FALSE, table |-> City, next |-> cat.next]
        base_slug == IF Truthy(slug_in) THEN slug_in ELSE slugify(title_in)
        unique_slug == UniqueSlug(Story, base_slug)
        stored == SaveLower(title_in, unique_slug)
        id == cty.next
    IN  /\ id <= MaxId
        /\ UNCHANGED <<proc, NewsletterSubscription, NewsletterTemplate, outbox, report,
                       Startup, Page, Redirect, StartupSubmission>>
        \* no transaction: what was created before a failure stays
        /\ Category' = cat.table
        /\ City' = cty.table
        /\ IF ~cty.ok \/ NullViolation(title_in) \/ UniqueViolation(Story, id, stored)
           THEN /\ last' = Response("story_create", 400, 0, slug_in, None, None)
                /\ nextId' = id
                /\ UNCHANGED Story
           ELSE /\ Story' = Persist(Story, Row(id, title_in, stored))
                /\ nextId' = id + 1
                /\ last' = Response("story_create", 201, id, slug_in, None, stored)

\* PUT stories/<story_id>/update/  {title, slug, category, city}; fault: the
\* store fails while the redirect is written
story_update(story_id, title_in, slug_in, category_in, city_in, fault) ==
    LET found == GetById(Story, story_id)
    IN  /\ UNCHANGED <<proc, NewsletterSubscription, NewsletterTemplate, outbox, report,
                       Startup, Page, StartupSubmission>>
        /\ IF found = {}
           THEN /\ ~fault
                /\ last' = Response("story_update", 404, 0, slug_in, None, None)
                /\ UNCHANGED <<Story, City, Category, Redirect, nextId>>
           ELSE
            LET story == CHOOSE r \in found : TRUE
                cat == LookupOrCreate(Category, category_in, nextId)
                cty == IF cat.ok THEN LookupOrCreate(City, city_in, cat.next)
                       ELSE [ok |-> FALSE, table |-> City, next |-> cat.next]
                old_story_slug == story.slug
                new_slug ==
                    IF Truthy(slug_in) /\ slug_in # story.slug
                    THEN UniqueSlugExcluding(Story, slug_in, story_id)
                    ELSE story.slug
                title == IF Truthy(title_in) THEN title_in ELSE story.name
                stored == SaveLower(title, new_slug)
                saved == cty.ok /\ ~UniqueViolation(Story, story_id, stored)
            IN  /\ cty.next <= MaxId + 1
                /\ fault => saved /\ ReachesLedger(old_story_slug, stored, StoriesPrefix)
                /\ Category' = cat.table
                /\ City' = cty.table
                /\ nextId' = cty.next
                /\ IF ~saved
                   THEN /\ last' = Response("story_update", 400, story_id,
                                            slug_in, old_story_slug, None)
                        /\ UNCHANGED <<Story, Redirect>>
                   ELSE \* story.save() is committed before the redirect is written
                        /\ Story' = Persist(Story, Row(story_id, title, stored))
                        /\ IF fault
                           THEN /\ last' = Response("story_update", 400, story_id,
                                                    slug_in, old_story_slug, None)
                                /\ UNCHANGED Redirect
                           ELSE /\ Redirect' = CreateRedirectIfSlugChanged(Redirect,
                                                   old_story_slug, stored, StoriesPrefix)
                                /\ Cardinality(Redirect') <= MaxLedger
                                /\ last' = Response("story_update", 200, story_id,
                                                    slug_in, old_story_slug, stored)

\* mutant: Story.objects.filter(id=story_id).delete(), which succeeds on no row
story_delete_filter(story_id) ==
    LET found == GetById(Story, story_id)
    IN  /\ UNCHANGED <<proc, NewsletterSubscription, NewsletterTemplate, outbox, report,
                       Startup, City, Category, Page, StartupSubmission, nextId>>
        /\ Story' = Story \ found
        /\ Redirect' = Redirect
        /\ last' = Response("story_delete", 200, story_id, None, None, None)

\* DELETE stories/<story_id>/delete/
story_delete(story_id) ==
    LET found == GetById(Story, story_id)
    IN  /\ UNCHANGED <<proc, NewsletterSubscription, NewsletterTemplate, outbox, report,
                       Startup, City, Category, Page, StartupSubmission, nextId>>
        /\ IF found = {}
           THEN /\ last' = Response("story_delete", 404, 0, None, None, None)
                /\ UNCHANGED <<Story, Redirect>>
           ELSE LET story == CHOOSE r \in found : TRUE
                IN  /\ Story' = Story \ {story}
                    /\ Redirect' = CascadeDelete(Redirect, story)
                    /\ last' = Response("story_delete", 200, story_id,
                                        None, story.slug, None)


\* ------------------------------------------------------------------------
\* City views
\* ------------------------------------------------------------------------
\* POST cities/create/  {name, slug}
city_create(name_in, slug_in) ==
    LET name == Strip(IF Truthy(name_in) THEN name_in ELSE <<>>)
        base_slug == IF Truthy(slug_in) THEN slug_in ELSE slugify(name)
        unique_slug == UniqueSlug(City, base_slug)
        stored == SaveKeep(name, unique_slug)
    IN  /\ nextId <= MaxId
        /\ UNCHANGED <<proc, NewsletterSubscription, NewsletterTemplate, outbox, report,
                       Startup, Story, Category, Page, Redirect, StartupSubmission>>
        /\ IF name = <<>> \/ UniqueViolation(City, nextId, stored)
           THEN /\ last' = Response("city_create", 400, 0, slug_in, None, None)
                /\ UNCHANGED <<City, nextId>>
           ELSE /\ City' = Persist(City, Row(nextId, name, stored))
                /\ nextId' = nextId + 1
                /\ last' = Response("city_create", 201, nextId, slug_in, None, stored)

\* the error text of city_update for an explicit slug another City holds
SlugAlreadyExists ==
    <<"S", "l", "u", "g", " ", "a", "l", "r", "e", "a", "d", "y", " ",
      "e", "x", "i", "s", "t", "s">>

\* mutant: the explicit slug assigned without the check
city_update_unchecked(slug, name_in, slug_in) ==
    LET found == GetBySlug(City, slug)
    IN  /\ UNCHANGED <<proc, NewsletterSubscription, NewsletterTemplate, outbox, report,
                       Startup, Story, Category, Page, Redirect, StartupSubmission, nextId>>
        /\ IF found = {}
           THEN /\ last' = Response("city_update", 404, 0, slug_in, None, None)
                /\ UNCHANGED City
           ELSE
            LET city == CHOOSE r \in found : TRUE
                new_name == Strip(IF Truthy(name_in) THEN name_in ELSE <<>>)
                renamed == Truthy(name_in) /\ new_name # <<>> /\ new_name # city.name
                name == IF renamed THEN new_name ELSE city.name
                slug1 == IF renamed /\ slug_in = None
                         THEN UniqueSlugExcluding(City, slugify(new_name), city.id)
                         ELSE city.slug
                explicit == Truthy(slug_in) /\ slug_in # slug1
                slug2 == IF explicit THEN slug_in ELSE slug1
                stored == SaveKeep(name, slug2)
            IN  IF UniqueViolation(City, city.id, stored)
                THEN /\ last' = Response("city_update", 400, city.id, slug_in,
                                         city.slug, None)
                     /\ UNCHANGED City
                ELSE /\ City' = Persist(City, Row(city.id, name, stored))
                     /\ last' = Response("city_update", 200, city.id, slug_in,
                                         city.slug, stored)

\* PUT cities/<slug>/update/  {name, slug}
city_update(slug, name_in, slug_in) ==
    LET found == GetBySlug(City, slug)
    IN  /\ UNCHANGED <<proc, NewsletterSubscription, NewsletterTemplate, outbox, report,
                       Startup, Story, Category, Page, Redirect, StartupSubmission, nextId>>
        /\ IF found = {}
           THEN /\ last' = Response("city_update", 404, 0, slug_in, None, None)
                /\ UNCHANGED City
           ELSE
            LET city == CHOOSE r \in found : TRUE
                new_name == Strip(IF Truthy(name_in) THEN name_in ELSE <<>>)
                renamed == Truthy(name_in) /\ new_name # <<>> /\ new_name # city.name
                name == IF renamed THEN new_name ELSE city.name
                \* "Only update slug if not explicitly provided"
                slug1 == IF renamed /\ slug_in = None
                         THEN UniqueSlugExcluding(City, slugify(new_name), city.id)
                         ELSE city.slug
                explicit == Truthy(slug_in) /\ slug_in # slug1
                slug2 == IF explicit THEN slug_in ELSE slug1
                stored == SaveKeep(name, slug2)
            IN  IF explicit /\ SlugExistsExcluding(City, slug_in, city.id)
                THEN \* return JsonResponse({'error': 'Slug already exists'}, 400)
                     /\ last' = Response("city_update", 400, city.id, slug_in,
                                         city.slug, SlugAlreadyExists)
                     /\ UNCHANGED City
                ELSE IF UniqueViolation(City, city.id, stored)
                THEN \* IntegrityError from city.save()
                     /\ last' = Response("city_update", 400, city.id, slug_in,
                                         city.slug, None)
                     /\ UNCHANGED City
                ELSE /\ City' = Persist(City, Row(city.id, name, stored))
                     /\ last' = Response("city_update", 200, city.id, slug_in,
                                         city.slug, stored)

\* DELETE cities/<slug>/delete/
city_delete(slug) ==
    LET found == GetBySlug(City, slug)
    IN  /\ UNCHANGED <<proc, NewsletterSubscription, NewsletterTemplate, outbox, report,
                       Startup, Story, Category, Page, StartupSubmission, nextId>>
        /\ IF found = {}
           THEN /\ last' = Response("city_delete", 404, 0, None, None, None)
                /\ UNCHANGED <<City, Redirect>>
           ELSE LET city == CHOOSE r \in found : TRUE
                IN  /\ City' = City \ {city}
                    /\ Redirect' = CascadeDelete(Redirect, city)
                    /\ last' = Response("city_delete", 200, city.id, None, city.slug, None)

\* ------------------------------------------------------------------------
\* Category views
\* ------------------------------------------------------------------------
\* POST categories/create/  {name, slug}
category_create(name_in, slug_in) ==
    LET name == Strip(IF Truthy(name_in) THEN name_in ELSE <<>>)
        base_slug == IF Truthy(slug_in) THEN slug_in ELSE slugify(name)
        unique_slug == UniqueSlug(Category, base_slug)
        stored == SaveKeep(name, unique_slug)
    IN  /\ nextId <= MaxId
        /\ UNCHANGED <<proc, NewsletterSubscription, NewsletterTemplate, outbox, report,
                       Startup, Story, City, Page, Redirect, StartupSubmission>>
        /\ IF name = <<>> \/ UniqueViolation(Category, nextId, stored)
           THEN /\ last' = Response("category_create", 400, 0, slug_in, None, None)
                /\ UNCHANGED <<Category, nextId>>
           ELSE /\ Category' = Persist(Category, Row(nextId, name, stored))
                /\ nextId' = nextId + 1
                /\ last' = Response("category_create", 201, nextId, slug_in, None, stored)

\* PUT categories/<slug>/update/  {name}
category_update(slug, name_in) ==
    LET found == GetBySlug(Category, slug)
    IN  /\ UNCHANGED <<proc, NewsletterSubscription, NewsletterTemplate, outbox, report,
                       Startup, Story, City, Page, Redirect, StartupSubmission, nextId>>
        /\ IF found = {}
           THEN /\ last' = Response("category_update", 404, 0, None, None, None)
                /\ UNCHANGED Category
           ELSE
            LET category == CHOOSE r \in found : TRUE
                new_name == Strip(IF Truthy(name_in) THEN name_in ELSE <<>>)
                renamed == Truthy(name_in) /\ new_name # <<>> /\ new_name # category.name
                name == IF renamed THEN new_name ELSE category.name
                unique_slug ==
                    IF renamed
                    THEN UniqueSlugExcluding(Category, slugify(new_name), category.id)
                    ELSE category.slug
                stored == SaveKeep(name, unique_slug)
            IN  IF UniqueViolation(Category, category.id, stored)
                THEN /\ last' = Response("category_update", 400, category.id, None,
                                         category.slug, None)
                     /\ UNCHANGED Category
                ELSE /\ Category' = Persist(Category, Row(category.id, name, stored))
                     /\ last' = Response("category_update", 200, category.id, None,
                                         category.slug, stored)

\* DELETE categories/<slug>/delete/
category_delete(slug) ==
    LET found == GetBySlug(Category, slug)
    IN  /\ UNCHANGED <<proc, NewsletterSubscription, NewsletterTemplate, outbox, report,
                       Startup, Story, City, Page, StartupSubmission, nextId>>
        /\ IF found = {}
           THEN /\ last' = Response("category_delete", 404, 0, None, None, None)
                /\ UNCHANGED <<Category, Redirect>>
           ELSE LET category == CHOOSE r \in found : TRUE
                IN  /\ Category' = Category \ {category}
                    /\ Redirect' = CascadeDelete(Redirect, category)
                    /\ last' = Response("category_delete", 200, category.id, None,
                                        category.slug, None)

\* ------------------------------------------------------------------------
\* Page views
\* ------------------------------------------------------------------------
\* POST pages/create/  {title, slug}
page_create(title_in, slug_in) ==
    LET base_slug == IF Truthy(slug_in) THEN slug_in ELSE slugify(title_in)
        unique_slug == UniqueSlug(Page, base_slug)
    IN  /\ nextId <= MaxId
        /\ UNCHANGED <<proc, NewsletterSubscription, NewsletterTemplate, outbox, report,
                       Startup, Story, City, Category, Redirect, StartupSubmission>>
        /\ IF ~Truthy(title_in) \/ UniqueViolation(Page, nextId, unique_slug)
           THEN /\ last' = Response("page_create", 400, 0, slug_in, None, None)
                /\ UNCHANGED <<Page, nextId>>
           ELSE /\ Page' = Persist(Page, Row(nextId, title_in, unique_slug))
                /\ nextId' = nextId + 1
                /\ last' = Response("page_create", 201, nextId, slug_in, None, unique_slug)

\* PUT pages/<pk>/update/  {title, slug}
page_update(pk, title_in, slug_in) ==
    LET found == GetById(Page, pk)
    IN  /\ UNCHANGED <<proc, NewsletterSubscription, NewsletterTemplate, outbox, report,
                       Startup, Story, City, Category, Redirect, StartupSubmission, nextId>>
        /\ IF found = {}
           THEN /\ last' = Response("page_update", 404, 0, slug_in, None, None)
                /\ UNCHANGED Page
           ELSE
            LET page == CHOOSE r \in found : TRUE
                title == IF title_in # None THEN title_in ELSE page.name
                unique_slug ==
                    IF slug_in # None /\ slug_in # page.slug
                    THEN UniqueSlugExcluding(Page, slug_in, pk)
                    ELSE page.slug
            IN  IF UniqueViolation(Page, pk, unique_slug)
                THEN /\ last' = Response("page_update", 400, pk, slug_in, page.slug, None)
                     /\ UNCHANGED Page
                ELSE /\ Page' = Persist(Page, Row(pk, title, unique_slug))
                     /\ last' = Response("page_update", 200, pk, slug_in, page.slug,
                                         unique_slug)

\* DELETE pages/<pk>/delete/
page_delete(pk) ==
    LET found == GetById(Page, pk)
    IN  /\ UNCHANGED <<proc, NewsletterSubscription, NewsletterTemplate, outbox, report,
                       Startup, Story, City, Category, StartupSubmission, nextId>>
        /\ IF found = {}
           THEN /\ last' = Response("page_delete", 404, 0, None, None, None)
                /\ UNCHANGED <<Page, Redirect>>
           ELSE LET page == CHOOSE r \in found : TRUE
                IN  /\ Page' = Page \ {page}
                    /\ Redirect' = CascadeDelete(Redirect, page)
                    /\ last' = Response("page_delete", 200, pk, None, page.slug, None)


\* ------------------------------------------------------------------------
\* Startup submissions
\* ------------------------------------------------------------------------
\* POST submissions/create/  {startup_name, category, city}
submit_startup(startup_name, category, city) ==
    LET id == Cardinality(StartupSubmission) + 1
    IN  /\ id <= MaxSubmissions
        /\ UNCHANGED <<proc, NewsletterSubscription, NewsletterTemplate, outbox, report,
                       Startup, Story, City, Category, Page, Redirect, nextId>>
        /\ StartupSubmission' = StartupSubmission \cup
               {[id |-> id, startup_name |-> startup_name, category |-> category,
                 city |-> city, status |-> "pending"]}
        /\ last' = Response("submit_startup", 201, id, None, None, None)

\* POST submissions/<pk>/status/  {status}
update_submission_status(pk, status) ==
    LET found == {s \in StartupSubmission : s.id = pk}
    IN  /\ UNCHANGED <<proc, NewsletterSubscription, NewsletterTemplate, outbox, report,
                       Story, Page, Redirect>>
        /\ IF found = {}
           THEN /\ last' = Response("update_submission_status", 404, 0, None, None, None)
                /\ UNCHANGED <<Startup, City, Category, StartupSubmission, nextId>>
           ELSE
            LET s == CHOOSE q \in found : TRUE
                approving == status = "approved" /\ s.status # "approved"
                cat == IF approving THEN LookupOrCreate(Category, s.category, nextId)
                       ELSE [ok |-> TRUE, table |-> Category, next |-> nextId]
                cty == IF ~cat.ok THEN [ok |-> FALSE, table |-> City, next |-> cat.next]
                       ELSE IF approving THEN LookupOrCreate(City, s.city, cat.next)
                       ELSE [ok |-> TRUE, table |-> City, next |-> cat.next]
                id == cty.next
                \* Startup.objects.create(name=s.startup_name, ...): no slug given
                stored == SaveLower(s.startup_name, <<>>)
                failed == approving /\ (~cty.ok \/ UniqueViolation(Startup, id, stored))
            IN  /\ approving => id <= MaxId
                \* no transaction: what was created before a failure stays
                /\ Category' = cat.table
                /\ City' = cty.table
                /\ IF failed
                   THEN /\ last' = Response("update_submission_status", 400, 0,
                                            None, None, None)
                        /\ nextId' = id
                        /\ UNCHANGED <<Startup, StartupSubmission>>
                   ELSE /\ StartupSubmission' =
                               (StartupSubmission \ {s}) \cup {[s EXCEPT !.status = status]}
                        /\ IF approving
                           THEN /\ Startup' = Persist(Startup,
                                                  Row(id, s.startup_name, stored))
                                /\ nextId' = id + 1
                                /\ last' = Response("update_submission_status", 200, id,
                                                    None, None, stored)
                           ELSE /\ UNCHANGED <<Startup, nextId>>
                                /\ last' = Response("update_submission_status", 200, 0,
                                                    None, None, None)

\* ------------------------------------------------------------------------
\* Requests the clients send
\* ------------------------------------------------------------------------
\* slugs and ids in request URLs: those in use and one that is not
UrlSlugs(table) == Slugs(table) \cup {UnknownSlug}
UrlIds == 0..(nextId - 1)
\* paths asked of the resolver: each stored key, with and without its
\* trailing slash, and a path that was never stored
ResolveInputs ==
    UNION {{r.from_path, RStrip(r.from_path, {"/"})} : r \in Redirect}
        \cup {PathOf(StoriesPrefix, UnknownSlug)}

StartupRequests(names, renames, slugs) ==
    \/ \E name_in \in names, slug_in \in slugs : startup_create(name_in, slug_in)
    \/ \E slug \in UrlSlugs(Startup), name_in \in renames, slug_in \in slugs,
          fault \in BOOLEAN : startup_update(slug, name_in, slug_in, fault)
    \/ \E slug \in UrlSlugs(Startup) : startup_delete(slug)

StoryRequests(names, renames, slugs, cats, cities, recats) ==
    \/ \E title_in \in names, slug_in \in slugs, category_in \in cats,
          city_in \in cities :
          story_create(title_in, slug_in, category_in, city_in)
    \/ \E story_id \in UrlIds, title_in \in renames, slug_in \in slugs,
          category_in \in recats, fault \in BOOLEAN :
          story_update(story_id, title_in, slug_in, category_in, None, fault)
    \/ \E story_id \in UrlIds, city_in \in recats \ {None} :
          story_update(story_id, None, None, None, city_in, FALSE)
    \/ \E story_id \in UrlIds : story_delete(story_id)

CityRequests(names, renames, slugs) ==
    \/ \E name_in \in names, slug_in \in slugs : city_create(name_in, slug_in)
    \/ \E slug \in UrlSlugs(City), name_in \in renames, slug_in \in slugs :
          city_update(slug, name_in, slug_in)
    \/ \E slug \in UrlSlugs(City) : city_delete(slug)

CategoryRequests(names, renames, slugs) ==
    \/ \E name_in \in names, slug_in \in slugs : category_create(name_in, slug_in)
    \/ \E slug \in UrlSlugs(Category), name_in \in renames : category_update(slug, name_in)
    \/ \E slug \in UrlSlugs(Category) : category_delete(slug)

PageRequests(names, renames, slugs) ==
    \/ \E title_in \in names, slug_in \in slugs : page_create(title_in, slug_in)
    \/ \E pk \in UrlIds, title_in \in renames, slug_in \in slugs :
          page_update(pk, title_in, slug_in)
    \/ \E pk \in UrlIds : page_delete(pk)

SubmissionRequests(names, tags) ==
    \/ \E startup_name \in names \ {None}, category \in tags \ {None} :
          submit_startup(startup_name, category, <<>>)
    \/ \E pk \in 0..MaxSubmissions, status \in {"approved", "rejected"} :
          update_submission_status(pk, status)

ResolveRequests ==
    \E path_in \in ResolveInputs : redirect_resolve(path_in)

\* every view of the entity kinds, one request at a time
Next ==
    \/ StartupRequests(FewNames, FewRenames, FewSlugs)
    \/ StoryRequests(FewNames, FewRenames, FewSlugs, FewTags, {None}, FewTags)
    \/ CityRequests(FewNames, FewRenames, FewSlugs)
    \/ CategoryRequests(FewNames, FewRenames, FewSlugs)
    \/ PageRequests(FewNames, FewRenames, FewSlugs)
    \/ SubmissionRequests(FewNames, FewTags)

Spec == Init /\ [][Next]_vars

\* the Startup views alone, over the full inputs
NextStartup == StartupRequests(NameInputs, RenameInputs, SlugInputs)

SpecStartup == Init /\ [][NextStartup]_vars

\* the Story views without categories and cities, and the resolver, over the
\* full inputs
NextStory ==
    \/ \E title_in \in TitleInputs, slug_in \in SlugInputs :
          story_create(title_in, slug_in, None, None)
    \/ \E story_id \in UrlIds, title_in \in {None}, slug_in \in SlugInputs,
          fault \in BOOLEAN :
          story_update(story_id, title_in, slug_in, None, None, fault)
    \/ \E story_id \in UrlIds : story_delete(story_id)
    \/ ResolveRequests

SpecStory == Init /\ [][NextStory]_vars

\* the redirect helper alone, called with every combination of slugs
HelperSlugs == {<<>>, <<"z">>, <<"y">>, <<"x">>, None}
HelperPrefixes == {StoriesPrefix, StartupsPrefix}
NextRedirect ==
    \E old_slug \in HelperSlugs, new_slug \in HelperSlugs, path_prefix \in HelperPrefixes :
        create_redirect_if_slug_changed(old_slug, new_slug, path_prefix)

SpecRedirect == Init /\ [][NextRedirect]_vars

\* ------------------------------------------------------------------------
\* The slug generator on its own: the slug search of a create view (no row
\* excluded, exclude_id = 0) and of an update view (the row exclude_id
\* excluded), applied to a name over every small collection
\* ------------------------------------------------------------------------
\* rows in a collection the generator is run against
MaxAssignRows == 3
AssignSlugs == {<<"z">>, <<"z", "-", "1">>, <<"z", "-", "2">>, <<"y">>}
AssignNames == {<<"Z">>, <<"Z", "!">>, <<"Y">>, <<"!">>}

\* every collection of at most MaxAssignRows startups with distinct slugs
InitAssign ==
    /\ \E f \in [1..MaxAssignRows -> AssignSlugs \cup {None}] :
          /\ \A i, j \in 1..MaxAssignRows : (i # j /\ f[i] # None) => f[i] # f[j]
          /\ Startup = {Row(i, <<"Z">>, f[i]) : i \in {k \in 1..MaxAssignRows : f[k] # None}}
    /\ Story = {}
    /\ City = {}
    /\ Category = {}
    /\ Page = {}
    /\ Redirect = {}
    /\ StartupSubmission = {}
    /\ nextId = MaxAssignRows + 1
    /\ last = Response("none", 0, 0, None, None, None)
    /\ proc = [p \in Procs |-> Idle]
    /\ NewsletterSubscription = {}
    /\ NewsletterTemplate = {}
    /\ outbox = {}
    /\ report = NoReport

\* base_slug = slugify(name); unique_slug = base_slug; counter = 1; while ...
assign_slug(name, exclude_id) ==
    LET base_slug == slugify(name)
        unique_slug == IF exclude_id = 0
                       THEN UniqueSlug(Startup, base_slug)
                       ELSE UniqueSlugExcluding(Startup, base_slug, exclude_id)
    IN  /\ UNCHANGED <<proc, NewsletterSubscription, NewsletterTemplate, outbox, report,
                       Startup, Story, City, Category, Page, Redirect,
                       StartupSubmission, nextId>>
        /\ last' = Response("assign_slug", 0, exclude_id, name, None, unique_slug)

NextAssign ==
    \E name \in AssignNames, exclude_id \in 0..MaxAssignRows : assign_slug(name, exclude_id)

SpecAssign == InitAssign /\ [][NextAssign]_vars

\* the City and Category views over names that share a slug ("Z" and "Z!")
\* and explicit slugs, with the Startup views over a mixed-case slug
NextRename ==
    \/ StartupRequests(FewNames, {None}, FewSlugs)
    \/ CityRequests(FewNames, TagInputs, SlugInputs)
    \/ CategoryRequests(FewNames, TagInputs, {None})

SpecRename == Init /\ [][NextRename]_vars

\* the Story views over explicit slugs that are not slug tokens: "y/" ends
\* with a slash
PathSlugInputs == {<<"y">>, <<"y", "/">>, None}
NextPaths ==
    \/ \E title_in \in FewNames : story_create(title_in, None, None, None)
    \/ \E story_id \in UrlIds, slug_in \in PathSlugInputs, fault \in BOOLEAN :
          story_update(story_id, None, slug_in, None, None, fault)
    \/ \E story_id \in UrlIds : story_delete(story_id)
    \/ ResolveRequests

SpecPaths == Init /\ [][NextPaths]_vars

\* every view of the entity kinds and the resolver
NextAll ==
    \/ Next
    \/ ResolveRequests

SpecAll == Init /\ [][NextAll]_vars

\* create requests that all carry the non-empty name "Z", an explicit slug
\* in mixed case or none, and a category "Z" or "Z!"; no store fault
NextConflict ==
    \/ \E slug_in \in FewSlugs : startup_create(<<"Z">>, slug_in)
    \/ \E slug \in UrlSlugs(Startup) : startup_delete(slug)
    \/ \E slug_in \in FewSlugs, category_in \in TagInputs :
          story_create(<<"Z">>, slug_in, category_in, None)
    \/ \E story_id \in UrlIds, slug_in \in FewSlugs :
          story_update(story_id, None, slug_in, None, None, FALSE)
    \/ \E slug_in \in FewSlugs : category_create(<<"Z">>, slug_in)

SpecConflict == Init /\ [][NextConflict]_vars

\* ------------------------------------------------------------------------
\* Newsletter: subscriptions, templates and the send_newsletter command
\* ------------------------------------------------------------------------
\* subscribers (one per email address)
MaxSubscribers == 3
\* templates ever created
MaxTemplates == 2
\* runs of the send_newsletter command
MaxRuns == 1

\* POST newsletter/subscribe/  {email}: get_or_create, reactivating an
\* inactive subscription
newsletter_subscribe(email) ==
    LET found == {s \in NewsletterSubscription : s.email = email}
    IN  /\ UNCHANGED <<Startup, Story, City, Category, Page, Redirect, StartupSubmission,
                       nextId, proc, NewsletterTemplate, outbox, report>>
        /\ NewsletterSubscription' =
              IF found = {}
              THEN NewsletterSubscription \cup
                       {[email |-> email, is_active |-> TRUE, last_sent_at |-> 0]}
              ELSE {[s EXCEPT !.is_active = IF s.email = email THEN TRUE ELSE @] :
                       s \in NewsletterSubscription}
        /\ last' = Response("newsletter_subscribe", 201, email, None, None, None)

\* GET/POST newsletter/unsubscribe/  {email, token}
newsletter_unsubscribe(email, token_ok) ==
    LET found == {s \in NewsletterSubscription : s.email = email /\ token_ok}
    IN  /\ UNCHANGED <<Startup, Story, City, Category, Page, Redirect, StartupSubmission,
                       nextId, proc, NewsletterTemplate, outbox, report>>
        /\ IF found = {}
           THEN /\ last' = Response("newsletter_unsubscribe", 404, 0, None, None, None)
                /\ UNCHANGED NewsletterSubscription
           ELSE /\ NewsletterSubscription' =
                      {[s EXCEPT !.is_active = IF s.email = email THEN FALSE ELSE @] :
                          s \in NewsletterSubscription}
                /\ last' = Response("newsletter_unsubscribe", 200, email, None, None, None)

\* POST newsletter/templates/create/ and newsletter/templates/<pk>/update/
\* {is_active}; pk = 0: no pk in the URL;
\* has_is_active: the request body has the key 'is_active'
newsletter_template_update(pk, has_is_active, is_active) ==
    LET found == {t \in NewsletterTemplate : t.id = pk}
        new_id == Cardinality(NewsletterTemplate) + 1
    IN  /\ UNCHANGED <<Startup, Story, City, Category, Page, Redirect, StartupSubmission,
                       nextId, proc, NewsletterSubscription, outbox, report>>
        /\ pk = 0 => new_id <= MaxTemplates
        /\ IF pk # 0 /\ found = {}
           THEN \* DoesNotExist is caught by "except Exception"
                /\ last' = Response("newsletter_template_update", 400, 0, None, None, None)
                /\ UNCHANGED NewsletterTemplate
           ELSE
            LET \* objects.get(pk=pk), or objects.create(name=...) whose
                \* is_active is the field default True
                template == IF pk # 0 THEN CHOOSE t \in found : TRUE
                            ELSE [id |-> new_id, is_active |-> TRUE]
                created == IF pk # 0 THEN NewsletterTemplate
                           ELSE NewsletterTemplate \cup {template}
                saved == IF has_is_active THEN [template EXCEPT !.is_active = is_active]
                         ELSE template
                \* NewsletterTemplate.objects.exclude(pk=template.pk).update(is_active=False)
                others == IF has_is_active /\ is_active
                          THEN {[t EXCEPT !.is_active = FALSE] :
                                   t \in {q \in created : q.id # template.id}}
                          ELSE {q \in created : q.id # template.id}
            IN  /\ NewsletterTemplate' = others \cup {saved}
                /\ last' = Response("newsletter_template_update", 200, template.id,
                                    None, None, None)

\* mutant: every subscriber, active or not
AllSubscribers(subscriptions) == subscriptions

\* NewsletterSubscription.objects.filter(is_active=True)
ActiveSubscribers(subscriptions) == {s \in subscriptions : s.is_active}

\* what can happen to one subscriber inside the try block of the loop:
\*   "ok"            the mail is sent and last_sent_at saved
\*   "render_error"  render_to_string raises (before the dry-run test)
\*   "send_error"    msg.send() raises
\*   "save_error"    sub.save() raises after the mail was sent
Outcomes(dry_run) ==
    IF dry_run THEN {"ok", "render_error"}
    ELSE {"ok", "render_error", "send_error", "save_error"}

\* manage.py send_newsletter [--dry-run] [--force]; recent: published stories
\* of the last 7 days exist; outcome: what happens to each subscriber
send_newsletter(dry_run, force, recent, outcome) ==
    LET subscribers == ActiveSubscribers(NewsletterSubscription)
        run == report.run + 1
        sent == {s \in subscribers : ~dry_run /\ outcome[s.email] \in {"ok", "save_error"}}
        saved == {s \in subscribers : ~dry_run /\ outcome[s.email] = "ok"}
        success_count == Cardinality({s \in subscribers : outcome[s.email] = "ok"})
        fail_count == Cardinality({s \in subscribers : outcome[s.email] # "ok"})
    IN  /\ run <= MaxRuns
        /\ UNCHANGED <<Startup, Story, City, Category, Page, Redirect, StartupSubmission,
                       nextId, proc, NewsletterTemplate, last>>
        /\ IF (~recent /\ ~force) \/ subscribers = {}
           THEN \* "Skipping newsletter." / "No active subscribers found."
                /\ report' = Report(run, dry_run, TRUE, 0, 0)
                /\ UNCHANGED <<NewsletterSubscription, outbox>>
           ELSE /\ outbox' = outbox \cup {[run |-> run, to |-> s.email] : s \in sent}
                /\ NewsletterSubscription' =
                      {IF s \in saved THEN [s EXCEPT !.last_sent_at = run] ELSE s :
                          s \in NewsletterSubscription}
                /\ report' = Report(run, dry_run, FALSE, success_count, fail_count)

NextNewsletter ==
    \/ \E email \in 1..MaxSubscribers : newsletter_subscribe(email)
    \/ \E email \in 1..MaxSubscribers, token_ok \in BOOLEAN :
          newsletter_unsubscribe(email, token_ok)
    \/ \E pk \in 0..MaxTemplates, has_is_active \in BOOLEAN, is_active \in BOOLEAN :
          newsletter_template_update(pk, has_is_active, is_active)
    \/ \E dry_run \in BOOLEAN, force \in BOOLEAN, recent \in BOOLEAN :
          \E outcome \in [1..MaxSubscribers -> Outcomes(dry_run)] :
              send_newsletter(dry_run, force, recent, outcome)

SpecNewsletter == Init /\ [][NextNewsletter]_vars

\* ------------------------------------------------------------------------
\* Requests in flight together: the views as the sequence of their store
\* accesses.  Each view runs in autocommit mode, so every query and every
\* save() outside transaction.atomic() is a step of its own that other
\* requests see at once; the writes of a transaction.atomic() block become
\* visible together at its commit.
\* ------------------------------------------------------------------------
Answered(q, status) == [q EXCEPT !.pc = "done", !.status = status]

\* the path prefix a view passes to _create_redirect_if_slug_changed
HelperPrefix(q) ==
    IF q.op = "story_update" THEN StoriesPrefix
    ELSE IF q.op = "startup_update" THEN StartupsPrefix
    ELSE q.req

\* startup_create up to the end of the suffix search
startup_create_check(p, name_in, slug_in) ==
    LET name == Strip(IF Truthy(name_in) THEN name_in ELSE <<>>)
        base_slug == IF Truthy(slug_in) THEN slug_in ELSE slugify(name)
        unique_slug == UniqueSlug(Startup, base_slug)
    IN  /\ proc[p].pc \in {"idle", "done"}
        /\ UNCHANGED <<Startup, Story, City, Category, Page, Redirect, StartupSubmission,
                       nextId, last, NewsletterSubscription, NewsletterTemplate, outbox,
                       report>>
        /\ proc' = [proc EXCEPT ![p] =
              IF name = <<>>
              THEN InFlight("startup_create", "done", 0, name, slug_in, None, None,
                            FALSE, 400)
              ELSE InFlight("startup_create", "insert", 0, name, slug_in, None,
                            unique_slug, FALSE, 0)]

\* startup_create: Startup.objects.create(...) inside transaction.atomic()
startup_create_insert(p) ==
    LET q == proc[p]
        stored == SaveLower(q.name, q.new)
    IN  /\ q.op = "startup_create" /\ q.pc = "insert"
        /\ nextId <= MaxId
        /\ UNCHANGED <<Story, City, Category, Page, Redirect, StartupSubmission,
                       last, NewsletterSubscription, NewsletterTemplate, outbox, report>>
        /\ IF UniqueViolation(Startup, nextId, stored)
           THEN \* IntegrityError: rolled back, answered by "except Exception"
                /\ proc' = [proc EXCEPT ![p] = Answered(q, 400)]
                /\ UNCHANGED <<Startup, nextId>>
           ELSE /\ Startup' = Persist(Startup, Row(nextId, q.name, stored))
                /\ nextId' = nextId + 1
                /\ proc' = [proc EXCEPT ![p] =
                      Answered([q EXCEPT !.id = nextId, !.new = stored], 201)]

\* story_update: story = Story.objects.get(id=story_id)
story_update_get(p, story_id, title_in, slug_in) ==
    LET found == GetById(Story, story_id)
    IN  /\ proc[p].pc \in {"idle", "done"}
        /\ UNCHANGED <<Startup, Story, City, Category, Page, Redirect, StartupSubmission,
                       nextId, last, NewsletterSubscription, NewsletterTemplate, outbox,
                       report>>
        /\ proc' = [proc EXCEPT ![p] =
              IF found = {}
              THEN InFlight("story_update", "done", 0, None, slug_in, None, None,
                            FALSE, 404)
              ELSE LET story == CHOOSE r \in found : TRUE
                   IN  InFlight("story_update", "slug", story.id,
                                IF Truthy(title_in) THEN title_in ELSE story.name,
                                slug_in, story.slug, story.slug, FALSE, 0)]

\* story_update: the suffix search for the requested slug
story_update_slug(p) ==
    LET q == proc[p]
    IN  /\ q.op = "story_update" /\ q.pc = "slug"
        /\ UNCHANGED <<Startup, Story, City, Category, Page, Redirect, StartupSubmission,
                       nextId, last, NewsletterSubscription, NewsletterTemplate, outbox,
                       report>>
        /\ proc' = [proc EXCEPT ![p] =
              [q EXCEPT !.pc = "save",
                        !.new = IF Truthy(q.req) /\ q.req # q.old
                                THEN UniqueSlugExcluding(Story, q.req, q.id)
                                ELSE q.old]]

\* story_update: story.save(), committed at once
story_update_save(p) ==
    LET q == proc[p]
        stored == SaveLower(q.name, q.new)
    IN  /\ q.op = "story_update" /\ q.pc = "save"
        /\ UNCHANGED <<Startup, City, Category, Page, Redirect, StartupSubmission,
                       nextId, last, NewsletterSubscription, NewsletterTemplate, outbox,
                       report>>
        /\ IF UniqueViolation(Story, q.id, stored)
           THEN /\ proc' = [proc EXCEPT ![p] = Answered(q, 400)]
                /\ UNCHANGED Story
           ELSE /\ Story' = Persist(Story, Row(q.id, q.name, stored))
                /\ proc' = [proc EXCEPT ![p] =
                      [q EXCEPT !.pc = "redirect_get", !.new = stored]]

\* startup_update: startup = Startup.objects.get(slug=slug)
startup_update_get(p, slug, name_in, slug_in) ==
    LET found == GetBySlug(Startup, slug)
    IN  /\ proc[p].pc \in {"idle", "done"}
        /\ UNCHANGED <<Startup, Story, City, Category, Page, Redirect, StartupSubmission,
                       nextId, last, NewsletterSubscription, NewsletterTemplate, outbox,
                       report>>
        /\ proc' = [proc EXCEPT ![p] =
              IF found = {}
              THEN InFlight("startup_update", "done", 0, None, slug_in, None, None,
                            FALSE, 404)
              ELSE LET startup == CHOOSE r \in found : TRUE
                   IN  InFlight("startup_update", "slug", startup.id,
                                IF name_in # None THEN name_in ELSE startup.name,
                                slug_in, startup.slug, startup.slug, FALSE, 0)]

\* startup_update: the suffix search, the first read of the atomic block
startup_update_slug(p) ==
    LET q == proc[p]
    IN  /\ q.op = "startup_update" /\ q.pc = "slug"
        /\ UNCHANGED <<Startup, Story, City, Category, Page, Redirect, StartupSubmission,
                       nextId, last, NewsletterSubscription, NewsletterTemplate, outbox,
                       report>>
        /\ proc' = [proc EXCEPT ![p] =
              [q EXCEPT !.pc = "commit",
                        !.new = IF Truthy(q.req) /\ q.req # q.old
                                THEN UniqueSlugExcluding(Startup,
                                         ReplaceSpace(Lower(slugify(q.req))), q.id)
                                ELSE q.old]]

\* startup_update: startup.save(), _create_redirect_if_slug_changed and the
\* commit of transaction.atomic(): both writes become visible together
startup_update_commit(p) ==
    LET q == proc[p]
        stored == SaveLower(q.name, q.new)
    IN  /\ q.op = "startup_update" /\ q.pc = "commit"
        /\ UNCHANGED <<Story, City, Category, Page, StartupSubmission,
                       nextId, last, NewsletterSubscription, NewsletterTemplate, outbox,
                       report>>
        /\ IF UniqueViolation(Startup, q.id, stored)
           THEN /\ proc' = [proc EXCEPT ![p] = Answered(q, 400)]
                /\ UNCHANGED <<Startup, Redirect>>
           ELSE /\ Startup' = Persist(Startup, Row(q.id, q.name, stored))
                /\ Redirect' = CreateRedirectIfSlugChanged(Redirect, q.old, stored,
                                                           StartupsPrefix)
                /\ Cardinality(Redirect') <= MaxLedger
                /\ proc' = [proc EXCEPT ![p] = Answered([q EXCEPT !.new = stored], 200)]

\* a direct call _create_redirect_if_slug_changed(old_slug, new_slug, path_prefix)
create_redirect_call(p, old_slug, new_slug, path_prefix) ==
    /\ proc[p].pc \in {"idle", "done"}
    /\ UNCHANGED <<Startup, Story, City, Category, Page, Redirect, StartupSubmission,
                   nextId, last, NewsletterSubscription, NewsletterTemplate, outbox,
                   report>>
    /\ proc' = [proc EXCEPT ![p] =
          InFlight("create_redirect_if_slug_changed", "redirect_get", 0, None,
                   path_prefix, old_slug, new_slug, FALSE, 0)]

\* _create_redirect_if_slug_changed up to the lookup of get_or_create
get_or_create_get(p) ==
    LET q == proc[p]
        from_path == PathOf(HelperPrefix(q), q.old)
    IN  /\ q.pc = "redirect_get"
        /\ UNCHANGED <<Startup, Story, City, Category, Page, Redirect, StartupSubmission,
                       nextId, last, NewsletterSubscription, NewsletterTemplate, outbox,
                       report>>
        /\ proc' = [proc EXCEPT ![p] =
              IF ~ReachesLedger(q.old, q.new, HelperPrefix(q))
              THEN Answered(q, 200)
              ELSE IF \E r \in Redirect : r.from_path = from_path
              THEN Answered([q EXCEPT !.hit = TRUE], 200)
              ELSE [q EXCEPT !.pc = "redirect_create"]]

\* mutant: Redirect.objects.create(...), whose IntegrityError fails the request
get_or_create_create_raises(p) ==
    LET q == proc[p]
        from_path == PathOf(HelperPrefix(q), q.old)
        to_path == PathOf(HelperPrefix(q), q.new)
    IN  /\ q.pc = "redirect_create"
        /\ UNCHANGED <<Startup, Story, City, Category, Page, StartupSubmission,
                       nextId, last, NewsletterSubscription, NewsletterTemplate, outbox,
                       report>>
        /\ IF \E r \in Redirect : r.from_path = from_path
           THEN /\ UNCHANGED Redirect
                /\ proc' = [proc EXCEPT ![p] = Answered(q, 500)]
           ELSE /\ Redirect' = Redirect \cup {RedirectRow(from_path, to_path, TRUE)}
                /\ Cardinality(Redirect') <= MaxLedger
                /\ proc' = [proc EXCEPT ![p] = Answered(q, 200)]

\* the INSERT of get_or_create after a lookup that found no record: on
\* IntegrityError (from_path is unique) get_or_create reads the record the
\* other request wrote and returns it
get_or_create_create(p) ==
    LET q == proc[p]
        from_path == PathOf(HelperPrefix(q), q.old)
        to_path == PathOf(HelperPrefix(q), q.new)
    IN  /\ q.pc = "redirect_create"
        /\ UNCHANGED <<Startup, Story, City, Category, Page, StartupSubmission,
                       nextId, last, NewsletterSubscription, NewsletterTemplate, outbox,
                       report>>
        /\ IF \E r \in Redirect : r.from_path = from_path
           THEN /\ UNCHANGED Redirect
                /\ proc' = [proc EXCEPT ![p] = Answered(q, 200)]
           ELSE /\ Redirect' = Redirect \cup {RedirectRow(from_path, to_path, TRUE)}
                /\ Cardinality(Redirect') <= MaxLedger
                /\ proc' = [proc EXCEPT ![p] = Answered(q, 200)]

\* two clients creating startups
RaceNames == {<<"Z">>, <<"Y">>}
RaceSlugs == {<<"z">>, None}
NextRaceCreate ==
    \E p \in Procs :
        \/ \E name_in \in RaceNames, slug_in \in RaceSlugs :
              startup_create_check(p, name_in, slug_in)
        \/ startup_create_insert(p)

SpecRaceCreate == Init /\ [][NextRaceCreate]_vars

\* two clients renaming stories and startups
RenameSlugs == {<<"y">>, <<"x">>}
NextRaceUpdate ==
    \/ story_create(<<"Z">>, None, None, None)
    \/ startup_create(<<"Z">>, None)
    \/ \E p \in Procs :
          \/ \E story_id \in UrlIds, slug_in \in RenameSlugs :
                story_update_get(p, story_id, None, slug_in)
          \/ story_update_slug(p)
          \/ story_update_save(p)
          \/ \E slug \in UrlSlugs(Startup), slug_in \in RenameSlugs :
                startup_update_get(p, slug, None, slug_in)
          \/ startup_update_slug(p)
          \/ startup_update_commit(p)
          \/ get_or_create_get(p)
          \/ get_or_create_create(p)

SpecRaceUpdate == Init /\ [][NextRaceUpdate]_vars

\* two clients registering redirects
NextRaceRedirect ==
    \E p \in Procs :
        \/ \E old_slug \in {<<"z">>, <<"y">>}, new_slug \in HelperSlugs :
              create_redirect_call(p, old_slug, new_slug, StoriesPrefix)
        \/ get_or_create_get(p)
        \/ get_or_create_create(p)

SpecRaceRedirect == Init /\ [][NextRaceRedirect]_vars

\* ========================================================================
\* Properties
\* ========================================================================
HasRow(table, id) == \E r \in table : r.id = id
RowOf(table, id) == CHOOSE r \in table : r.id = id
HasKey(ledger, from_path) == \E r \in ledger : r.from_path = from_path

\* the address of a slug, as the path convention writes it:
\* "/" + prefix + "/" + slug + "/"
Address(prefix, slug) == <<"/">> \o prefix \o <<"/">> \o slug \o <<"/">>

UniqueSlugs(table) == \A r1, r2 \in table : r1.id # r2.id => r1.slug # r2.slug

\* C1: no two live rows of the same entity kind have the same slug, in every
\* state reached by create, update and delete requests on all five kinds and
\* by submission approval.
C1_SlugUniqueness ==
    /\ UniqueSlugs(Startup)
    /\ UniqueSlugs(Story)
    /\ UniqueSlugs(City)
    /\ UniqueSlugs(Category)
    /\ UniqueSlugs(Page)

\* two live Startups, the second just created beside the first
C1_Witness ==
    /\ last.op = "startup_create" /\ last.status = 201
    /\ \E r \in Startup : r.id # last.id /\ r.name = RowOf(Startup, last.id).name

\* C2: the redirect ledger holds at most one record per from_path.
C2_LedgerKeyUnique ==
    \A r, q \in Redirect : r.from_path = q.from_path => r = q

\* a second slug change has been recorded beside the first
C2_Witness ==
    /\ last.op = "story_update" /\ last.status = 200
    /\ last.old # last.out
    /\ Cardinality(Redirect) = 2

\* C3: resolve called with a stored key "/<prefix>/<old>/", with or without
\* its trailing slash, finds the record and returns its to_path.
C3_ResolveFindsStored ==
    \A r \in Redirect :
        (last.op = "redirect_resolve"
            /\ last.req \in {r.from_path, RStrip(r.from_path, {"/"})})
        => (last.status = 200 /\ last.out = r.to_path)

\* a Startup with a non-empty slug asked for a slug that another Startup holds
C4_HeldByAnother ==
    /\ last.op = "startup_update" /\ last.status = 200
    /\ Truthy(last.old) /\ Truthy(last.req) /\ last.req # last.old
    /\ \E o \in Startup : o.id # last.id /\ o.slug = last.req

\* C4 as stated: a Startup update whose requested slug is held by another
\* Startup ends with a slug different from the old one and a redirect from the
\* old path to the new path; with "z" and "z-1" taken, the holder of "z-1"
\* asking for "z" receives "z-2".
C4_RenameOntoTaken ==
    C4_HeldByAnother =>
        LET new == RowOf(Startup, last.id).slug
        IN  /\ new # last.old
            /\ RedirectRow(Address(StartupsPrefix, last.old),
                           Address(StartupsPrefix, new), TRUE) \in Redirect
            /\ (last.req = <<"z">> /\ last.old = <<"z", "-", "1">>)
                   => new = <<"z", "-", "2">>

\* C4 amended: a successful Startup update whose requested slug, slugified to
\* s, is held by another Startup ends with the slug s-k for the smallest
\* k >= 1 such that no other Startup holds s-k.  The entity's own row does not
\* count, so the holder of "z-1" asking for the taken "z" keeps "z-1".  When
\* the slug is unchanged, or the old slug is empty, the ledger is unchanged;
\* otherwise the ledger gains the record old path -> new path unless it
\* already holds a record for the old path.
C4_Amended ==
    [][ (/\ last'.op = "startup_update" /\ last'.status = 200
         /\ Truthy(last'.req) /\ last'.req # last'.old
         /\ SlugExistsExcluding(Startup, Lower(slugify(last'.req)), last'.id))
        =>
        LET s == Lower(slugify(last'.req))
            old == last'.old
            new == RowOf(Startup', last'.id).slug
            others == {r.slug : r \in {q \in Startup' : q.id # last'.id}}
        IN  /\ new \notin others
            /\ \E k \in 1..(Cardinality(others) + 1) :
                  /\ new = s \o <<"-">> \o Decimal(k)
                  /\ \A j \in 1..(k - 1) : (s \o <<"-">> \o Decimal(j)) \in others
            /\ (s = <<"z">> /\ old = <<"z", "-", "1">> /\ others = {<<"z">>})
                   => new = old
            /\ Redirect' =
                  IF new = old \/ ~Truthy(old)
                        \/ HasKey(Redirect, Address(StartupsPrefix, old))
                  THEN Redirect
                  ELSE Redirect \cup {RedirectRow(Address(StartupsPrefix, old),
                                                  Address(StartupsPrefix, new), TRUE)}
      ]_vars

\* the holder of "z-1" has asked for "z", which another Startup holds
C4_Witness ==
    /\ last.op = "startup_update" /\ last.status = 200
    /\ last.req = <<"z">> /\ last.old = <<"z", "-", "1">>
    /\ \E o \in Startup : o.id # last.id /\ o.slug = <<"z">>
    /\ RowOf(Startup, last.id).slug = <<"z", "-", "1">>

C6_UpdateAtomic ==
    /\ (last.op = "story_update" /\ last.status = 400 /\ HasRow(Story, last.id))
           => RowOf(Story, last.id).slug = last.old
    /\ (last.op = "startup_update" /\ last.status = 400 /\ HasRow(Startup, last.id))
           => RowOf(Startup, last.id).slug = last.old

\* C7: a record, once in the ledger, keeps its to_path and is_permanent; a
\* Story update whose old path already has a record adds no record.
C7_FirstWriteWins ==
    [][ /\ \A r \in Redirect : \A q \in Redirect' :
               q.from_path = r.from_path => q = r
        /\ (/\ last'.op = "story_update" /\ last'.status = 200
            /\ HasKey(Redirect, Address(StoriesPrefix, last'.old)))
           => Redirect' = Redirect
      ]_vars

\* a Story left a slug whose path already forwards elsewhere
C7_Witness ==
    /\ last.op = "story_update" /\ last.status = 200
    /\ last.out # last.old
    /\ \E r \in Redirect :
          /\ r.from_path = Address(StoriesPrefix, last.old)
          /\ r.to_path # Address(StoriesPrefix, last.out)

\* C8: no request removes or changes a ledger record; create and delete
\* requests of every kind leave the ledger as it is.
C8_AppendOnly ==
    [][ /\ Redirect \subseteq Redirect'
        /\ last'.op \in {"startup_create", "story_create", "city_create",
                         "category_create", "page_create", "submit_startup",
                         "update_submission_status",
                         "startup_delete", "story_delete", "city_delete",
                         "category_delete", "page_delete"}
           => Redirect' = Redirect
      ]_vars

\* a Startup was deleted while a record forwards to its path
C8_Witness ==
    /\ last.op = "startup_delete" /\ last.status = 200
    /\ \E r \in Redirect : r.to_path = Address(StartupsPrefix, last.old)

\* C9: the helper called with an empty old slug, an empty new slug or equal
\* slugs returns normally and leaves the ledger unchanged; no record has
\* from_path equal to to_path.
C9_NoOp ==
    [][ /\ (/\ last'.op = "create_redirect_if_slug_changed"
            /\ (~Truthy(last'.old) \/ ~Truthy(last'.out) \/ last'.old = last'.out))
           => (Redirect' = Redirect /\ last'.status = 0)
        /\ \A r \in Redirect' : r.from_path # r.to_path
      ]_vars

\* the helper was called with equal slugs on a ledger that holds a record
C9_Witness ==
    /\ last.op = "create_redirect_if_slug_changed"
    /\ Truthy(last.old) /\ last.old = last.out
    /\ Redirect # {}

NormalBase(name) ==
    CASE name = <<"Z">> -> <<"z">>
      [] name = <<"Z", "!">> -> <<"z">>
      [] name = <<"Y">> -> <<"y">>
      [] name = <<"!">> -> <<>>

\* C11: the slug generator returns the normalized base candidate when no row
\* other than exclude_id holds it, and otherwise base-k for the smallest
\* positive k such that no row other than exclude_id holds base-k; the result
\* is never a slug held by another row.
C11_AssignSlug ==
    last.op = "assign_slug" =>
        LET base == NormalBase(last.req)
            others == {r.slug : r \in {q \in Startup : q.id # last.id}}
        IN  /\ last.out \notin others
            /\ base \notin others => last.out = base
            /\ base \in others =>
                  \E k \in 1..(MaxAssignRows + 1) :
                      /\ last.out = base \o <<"-">> \o Decimal(k)
                      /\ \A j \in 1..(k - 1) : (base \o <<"-">> \o Decimal(j)) \in others

\* the generator skipped "z" and "z-1", held by others, and returned "z-2"
C11_Witness ==
    /\ last.op = "assign_slug" /\ last.req = <<"Z">>
    /\ last.out = <<"z", "-", "2">>
    /\ \E r \in Startup : r.id = last.id /\ r.slug = <<"y">>

\* a create view answered 201 to a request that named no slug, for the
\* entity called "Z" (normalized base "z")
DerivedCreate(resp, op, table) ==
    /\ resp.op = op /\ resp.status = 201 /\ resp.req = None
    /\ \E r \in table : r.id = resp.id /\ r.name = <<"Z">>

\* the second of two successive creates of one kind, both for the name "Z",
\* where the first received "z" and "z-1" is free, receives "z-1"
SecondCreate(op, table, tableAfter) ==
    (/\ DerivedCreate(last, op, table)
     /\ DerivedCreate(last', op, tableAfter)
     /\ last.out = <<"z">>
     /\ <<"z", "-", "1">> \notin Slugs(table))
    => (last'.out = <<"z", "-", "1">> /\ last'.out # last.out
        /\ RowOf(tableAfter, last'.id).slug = <<"z", "-", "1">>
        /\ RowOf(tableAfter, last.id).slug = <<"z">>)

\* C12: two successive creates in one entity kind with names that normalize
\* to the same base x, from a collection where x and x-1 are free, give the
\* first entity the slug x and the second the slug x-1.
C12_SuccessiveCreates ==
    [][ /\ SecondCreate("startup_create", Startup, Startup')
        /\ SecondCreate("story_create", Story, Story')
        /\ SecondCreate("city_create", City, City')
        /\ SecondCreate("category_create", Category, Category')
        /\ SecondCreate("page_create", Page, Page')
      ]_vars

\* a second Startup named "Z" was created right after the first
C12_Witness ==
    /\ last.op = "startup_create" /\ last.status = 201 /\ last.req = None
    /\ last.out = <<"z", "-", "1">>
    /\ \E r \in Startup : r.id = last.id - 1 /\ r.slug = <<"z">> /\ r.name = <<"Z">>
    /\ RowOf(Startup, last.id).name = <<"Z">>

\* an update of a City or Category that renamed the row to "Z!" (base
\* candidate "z") while the row held "z", with no slug in the request
RenamedOntoOwnSlug(op, table, tableAfter) ==
    /\ last'.op = op /\ last'.status = 200 /\ last'.req = None
    /\ last'.old = <<"z">>
    /\ \E r \in table : r.id = last'.id /\ r.name = <<"Z">>
    /\ \E r \in tableAfter : r.id = last'.id /\ r.name = <<"Z", "!">>

\* C13: when an update regenerates the slug of an entity and the candidate
\* equals the entity's own current slug, the entity keeps that slug (no
\* suffix) and no redirect is created.
C13_SelfExclusion ==
    [][ /\ RenamedOntoOwnSlug("city_update", City, City')
           => (RowOf(City', last'.id).slug = <<"z">> /\ Redirect' = Redirect)
        /\ RenamedOntoOwnSlug("category_update", Category, Category')
           => (RowOf(Category', last'.id).slug = <<"z">> /\ Redirect' = Redirect)
        /\ (/\ last'.op = "startup_update" /\ last'.status = 200
            /\ last'.req = <<"Z">> /\ last'.old = <<"z">>)
           => (RowOf(Startup', last'.id).slug = <<"z">> /\ Redirect' = Redirect)
      ]_vars

\* a Category holding "z" was renamed from "Z" to "Z!" and kept "z"
C13_Witness ==
    /\ last.op = "category_update" /\ last.status = 200
    /\ last.old = <<"z">> /\ last.out = <<"z">>
    /\ RowOf(Category, last.id).name = <<"Z", "!">>
    /\ RowOf(Category, last.id).slug = <<"z">>

\* the pattern [a-z0-9]+(-[a-z0-9]+)*
MatchesSlugPattern(s) ==
    /\ s # <<>>
    /\ \A i \in 1..Len(s) : IsLowerAlpha(s[i]) \/ IsDigit(s[i]) \/ s[i] = "-"
    /\ s[1] # "-" /\ s[Len(s)] # "-"
    /\ \A i \in 1..(Len(s) - 1) : ~(s[i] = "-" /\ s[i + 1] = "-")

WellFormedSlugs(table) ==
    \A r \in table :
        \/ r.slug = <<>> /\ slugify(r.name) = <<>>
        \/ MatchesSlugPattern(r.slug)

\* C14: every slug a create or update assigns, derived from the name or given
\* in the request, is empty (only when the input normalizes to empty) or
\* matches [a-z0-9]+(-[a-z0-9]+)*.
C14_SlugPattern ==
    /\ WellFormedSlugs(Startup)
    /\ WellFormedSlugs(Story)
    /\ WellFormedSlugs(City)
    /\ WellFormedSlugs(Category)
    /\ WellFormedSlugs(Page)

\* following at most n records from path arrives at target
RECURSIVE Leads(_, _, _)
Leads(path, target, n) ==
    \/ path = target
    \/ /\ n > 0
       /\ \E q \in Redirect : q.from_path = path /\ Leads(q.to_path, target, n - 1)

\* C15: the ledger, seen as a graph from_path -> to_path, has no cycle:
\* following records from any path terminates.
C15_NoRedirectCycle ==
    \A r \in Redirect : ~Leads(r.to_path, r.from_path, Cardinality(Redirect))

\* the path prefix of the kind an update view serves
PrefixOfUpdate(op) ==
    CASE op = "startup_update" -> StartupsPrefix
      [] op = "story_update" -> StoriesPrefix
      [] op = "city_update" -> <<"c", "i", "t", "i", "e", "s">>
      [] op = "category_update" -> <<"c", "a", "t", "e", "g", "o", "r", "i", "e", "s">>
      [] op = "page_update" -> <<"p", "a", "g", "e", "s">>

\* C16: after a successful update of an entity of any kind that changes its
\* slug from s to t, the ledger holds a record whose from_path is the path of
\* s under the kind's prefix.
C16_RedirectOnEverySlugChange ==
    (/\ last.op \in {"startup_update", "story_update", "city_update",
                     "category_update", "page_update"}
     /\ last.status = 200
     /\ Truthy(last.old) /\ Truthy(last.out) /\ last.out # last.old)
    => HasKey(Redirect, Address(PrefixOfUpdate(last.op), last.old))

\* the step is an update by view op that changed the slug of its row
SlugChangingUpdate(op, table, tableAfter) ==
    /\ last'.op = op
    /\ \E r \in table : \E q \in tableAfter :
          r.id = last'.id /\ q.id = last'.id /\ r.slug # q.slug

\* C17: the ledger changes only in an update that changes a slug; a create, a
\* delete, and an update that leaves the slug as it was leave the ledger
\* unchanged.
C17_OnlySlugChangeRegisters ==
    [][ Redirect' # Redirect =>
            \/ SlugChangingUpdate("startup_update", Startup, Startup')
            \/ SlugChangingUpdate("story_update", Story, Story')
      ]_vars

\* an update left a Startup's slug as it was, on a ledger that holds a record
C17_Witness ==
    /\ last.op = "startup_update" /\ last.status = 200
    /\ last.out = last.old /\ RowOf(Startup, last.id).slug = last.old
    /\ Redirect # {}

\* the row a create view just stored has a display name that is not blank
CreatedWithName(op, table) ==
    (last.op = op /\ last.status = 201)
    => \A r \in table : r.id = last.id => (r.name # None /\ Strip(r.name) # <<>>)

\* C18: for every kind, a create request whose name/title is missing or empty
\* after trimming fails and persists no entity: a create never answers 201
\* for, nor stores, an entity with a blank display name.
C18_CreateValidation ==
    /\ CreatedWithName("startup_create", Startup)
    /\ CreatedWithName("story_create", Story)
    /\ CreatedWithName("city_create", City)
    /\ CreatedWithName("category_create", Category)
    /\ CreatedWithName("page_create", Page)

\* C19: no live entity has an empty slug: a name that normalizes to the empty
\* string is rejected rather than persisted.
C19_NoEmptySlug ==
    \A table \in {Startup, Story, City, Category, Page} :
        \A r \in table : r.slug # <<>>

\* an update by view op asked for a slug, different from the row's own, that
\* another row of the table holds: it succeeds and the row receives a free
\* slug made of the requested one and a suffix
ExplicitSlugSuffixed(op, table) ==
    (/\ last.op = op /\ last.id # 0
     /\ Truthy(last.req) /\ last.req # last.old
     /\ \E o \in table : o.id # last.id /\ o.slug = last.req)
    => /\ last.status = 200
       /\ \E r \in table :
             /\ r.id = last.id
             /\ r.slug \notin {o.slug : o \in {q \in table : q.id # last.id}}
             /\ \E k \in 1..(Cardinality(table) + 1) :
                   r.slug = last.req \o <<"-">> \o Decimal(k)

\* C20: for every kind, an update that supplies an explicit slug different
\* from the current one assigns the slug generator's result for it (the entity
\* itself excluded); when another entity holds the requested slug the update
\* still succeeds and the entity receives a suffixed free slug.
C20_ExplicitSlugOnUpdate ==
    /\ ExplicitSlugSuffixed("startup_update", Startup)
    /\ ExplicitSlugSuffixed("story_update", Story)
    /\ ExplicitSlugSuffixed("city_update", City)
    /\ ExplicitSlugSuffixed("category_update", Category)
    /\ ExplicitSlugSuffixed("page_update", Page)

\* path is "/" + prefix + "/" + slug + "/" for a non-empty slug without "/"
FollowsConvention(path, prefix) ==
    LET n == Len(prefix) + 2
    IN  /\ Len(path) > n + 1
        /\ SubSeq(path, 1, n) = <<"/">> \o prefix \o <<"/">>
        /\ path[Len(path)] = "/"
        /\ \A i \in (n + 1)..(Len(path) - 1) : path[i] # "/"

\* C21: in every reachable state each record's from_path and to_path is
\* exactly "/" + prefix + "/" + slug + "/" with the prefix "stories" or
\* "startups", one leading slash, one trailing slash and no double slash.
C21_PathConvention ==
    \A r \in Redirect :
        \E prefix \in {StoriesPrefix, StartupsPrefix} :
            /\ FollowsConvention(r.from_path, prefix)
            /\ FollowsConvention(r.to_path, prefix)

\* the view op answered something other than not-found only for a row that
\* was in its table
AnsweredForRow(op, table) ==
    (last'.op = op /\ last'.status # 404) => HasRow(table, last'.id)

C26_NoSlugConflict ==
    last.op \in {"startup_create", "story_create", "category_create", "story_update"}
        => last.status \in {200, 201, 404}

\* C28: city_update with an explicit slug that another City holds answers
\* 'Slug already exists' and leaves the persisted City and the ledger
\* unchanged, also when the request carries a new name.
C28_SlugAlreadyExists ==
    [][ (/\ last'.op = "city_update" /\ last'.id # 0
         /\ Truthy(last'.req) /\ last'.req # last'.old
         /\ SlugExistsExcluding(City, last'.req, last'.id))
        => /\ last'.status = 400
           /\ last'.out = <<"S", "l", "u", "g", " ", "a", "l", "r", "e", "a", "d", "y",
                            " ", "e", "x", "i", "s", "t", "s">>
           /\ City' = City
           /\ Redirect' = Redirect
      ]_vars

\* the City holding "z-1" asked for "z", which another City holds
C28_Witness ==
    /\ last.op = "city_update" /\ last.status = 400
    /\ last.req = <<"z">> /\ last.old = <<"z", "-", "1">>
    /\ last.out = SlugAlreadyExists
    /\ \E o \in City : o.id # last.id /\ o.slug = <<"z">>
    /\ RowOf(City, last.id).slug = <<"z", "-", "1">>


\* a run of the send_newsletter command has just ended
NewsletterRun == report'.run # report.run

\* C27: a run of send_newsletter with --dry-run sends no email and changes no
\* last_sent_at; a run without it mails only subscribers whose is_active is
\* true; and in a run that reaches the loop over the subscribers a failure for
\* one of them does not stop the others: successes plus failures equals the
\* number of active subscribers.
C27_SendNewsletter ==
    [][NewsletterRun =>
          /\ report'.dry_run =>
                outbox' = outbox /\ NewsletterSubscription' = NewsletterSubscription
          /\ \A m \in outbox' \ outbox :
                \E s \in NewsletterSubscription : s.email = m.to /\ s.is_active
          /\ \A s \in NewsletterSubscription :
                ~s.is_active => s \in NewsletterSubscription'
          /\ ~report'.skipped =>
                report'.success_count + report'.fail_count =
                    Cardinality({s \in NewsletterSubscription : s.is_active})]_vars

\* a real run in which one subscriber failed, another was mailed, and an
\* inactive subscriber was left alone
C27_Witness ==
    /\ report.run > 0 /\ ~report.dry_run /\ ~report.skipped
    /\ report.fail_count >= 1 /\ report.success_count >= 1
    /\ outbox # {}
    /\ \E s \in NewsletterSubscription :
          ~s.is_active /\ \A m \in outbox : m.to # s.email

\* C30: at most one NewsletterTemplate is active after any sequence of
\* newsletter_template_update requests.
C30_OneActiveTemplate ==
    Cardinality({t \in NewsletterTemplate : t.is_active}) <= 1


\* the table a view in flight works on
TableOf(q, stories, startups) == IF q.op = "story_update" THEN stories ELSE startups

\* the update of process p has made its renamed row visible to other requests
RenameVisible(p) ==
    /\ proc[p].op \in {"story_update", "startup_update"}
    /\ proc[p].pc \in {"redirect_get", "redirect_create", "done"}
    /\ proc[p].status \in {0, 200}
    /\ ReachesLedger(proc[p].old, proc[p].new, HelperPrefix(proc[p]))
    /\ \E r \in TableOf(proc[p], Story, Startup) :
          r.id = proc[p].id /\ r.slug = proc[p].new

\* C22: inside one update the redirect is registered before the renamed
\* entity becomes visible to other requests: in no state can another request
\* read the entity under its new slug while the ledger has no record for its
\* old address.
C22_RedirectBeforeVisible ==
    \A p \in Procs :
        RenameVisible(p) =>
            HasKey(Redirect, Address(HelperPrefix(proc[p]), proc[p].old))

\* process p takes the insert step of startup_create
InsertStep(p) ==
    proc[p].op = "startup_create" /\ proc[p].pc = "insert" /\ proc'[p].pc = "done"

\* C24: when create requests interleave their check and insert steps, no two
\* Startup rows ever share a slug; a request whose checked slug was taken by
\* the time of its insert is answered with an error and persists nothing, and
\* a request answered 201 has persisted exactly its own new row.
C24_ConcurrentCreates ==
    [][/\ UniqueSlugs(Startup')
       /\ \A p \in Procs : InsertStep(p) =>
             IF SlugExists(Startup, SaveLower(proc[p].name, proc[p].new))
             THEN proc'[p].status = 400 /\ Startup' = Startup
             ELSE /\ proc'[p].status = 201
                  /\ Startup' = Startup \cup
                        {Row(proc'[p].id, proc[p].name,
                             SaveLower(proc[p].name, proc[p].new))}
                  /\ ~HasRow(Startup, proc'[p].id)]_vars

\* both requests checked the same free slug; one inserted, the other lost
C24_Witness ==
    /\ proc[1].op = "startup_create" /\ proc[2].op = "startup_create"
    /\ proc[1].pc = "done" /\ proc[2].pc = "done"
    /\ proc[1].name = proc[2].name
    /\ proc[1].status = 201 /\ proc[2].status = 400
    /\ proc[2].new = proc[1].new
    /\ Cardinality({r \in Startup : r.slug = proc[1].new}) = 1

\* process p takes the persist step of an update, and the store accepts it
PersistStep(p) ==
    /\ proc[p].op \in {"story_update", "startup_update"}
    /\ proc[p].pc \in {"save", "commit"}
    /\ proc'[p].pc # proc[p].pc
    /\ proc'[p].status # 400

\* C25: each persist step of an update leaves exactly one row with the
\* entity's id, holding the slug that this update wrote, and leaves every
\* other row alone; no other step of an update changes a row. So after two
\* interleaved updates of one entity its slug is that of the update whose
\* persist step ran last, and the row is neither duplicated nor lost.
C25_LastWriterWins ==
    [][/\ \A p \in Procs : PersistStep(p) =>
             LET before == TableOf(proc[p], Story, Startup)
                 after == TableOf(proc[p], Story', Startup')
             IN  /\ {r \in after : r.id = proc[p].id} =
                        {Row(proc[p].id, proc[p].name, proc'[p].new)}
                 /\ {r \in after : r.id # proc[p].id} =
                        {r \in before : r.id # proc[p].id}
                 /\ HasRow(before, proc[p].id)
       /\ (proc' # proc /\ \A p \in Procs : ~PersistStep(p)) =>
             Story' = Story /\ Startup' = Startup]_vars

\* two updates loaded the same story under the same slug, both renamed it to
\* different slugs and both were answered 200
C25_Witness ==
    /\ proc[1].op = "story_update" /\ proc[2].op = "story_update"
    /\ proc[1].pc = "done" /\ proc[2].pc = "done"
    /\ proc[1].status = 200 /\ proc[2].status = 200
    /\ proc[1].id = proc[2].id /\ proc[1].old = proc[2].old
    /\ proc[1].new # proc[1].old /\ proc[2].new # proc[2].old
    /\ proc[1].new # proc[2].new
    /\ Cardinality({r \in Story : r.id = proc[1].id}) = 1

\* process p has returned from a helper call whose lookup found no record
Registered(p) ==
    /\ proc[p].op = "create_redirect_if_slug_changed" /\ proc[p].pc = "done"
    /\ ~proc[p].hit
    /\ ReachesLedger(proc[p].old, proc[p].new, proc[p].req)

\* C29: when two requests register a redirect for the same from_path and the
\* lookups of both find no record, afterwards the ledger holds exactly one
\* record for that from_path, its to_path is the target of one of the two
\* requests, and neither request has failed.
C29_ConcurrentRegistration ==
    \A p1, p2 \in Procs :
        (p1 # p2 /\ Registered(p1) /\ Registered(p2) /\ proc[p1].old = proc[p2].old) =>
            LET from_path == Address(proc[p1].req, proc[p1].old)
                records == {r \in Redirect : r.from_path = from_path}
            IN  /\ Cardinality(records) = 1
                /\ \A r \in records :
                      r.to_path \in {Address(proc[p1].req, proc[p1].new),
                                     Address(proc[p2].req, proc[p2].new)}
                /\ proc[p1].status = 200 /\ proc[p2].status = 200

\* both requests missed at the lookup and asked for different targets
C29_Witness ==
    /\ Registered(1) /\ Registered(2)
    /\ proc[1].old = proc[2].old /\ proc[1].new # proc[2].new
    /\ \E r \in Redirect :
          /\ r.from_path = Address(proc[1].req, proc[1].old)
          /\ r.to_path = Address(proc[2].req, proc[2].new)

====
